---- MODULE Spec2Model ----
(***************************************************************************)
(* Model of dlt/sources/sql_database/helpers.py: the TableLoader query     *)
(* builder (_make_query / make_query), the two row-loading paths           *)
(* (_load_rows, _load_rows_connectorx), the table_rows generator with its  *)
(* try/finally engine disposal, and engine_from_credentials.               *)
(*                                                                         *)
(* Two specifications share the definitions:                               *)
(*   Spec      - one extraction run, step by step, with every external     *)
(*               call free to fail and the consumer free to stop early;    *)
(*   SpecQuery - the query builder applied to every cursor state and table *)
(*               within the bounds, and the query evaluated by the         *)
(*               database with SQL three-valued logic.                     *)
(***************************************************************************)
EXTENDS Integers, Sequences, FiniteSets, TLC

\* ------------------------------------------------------------- bounds ----
MaxVal == 2
MaxRows == 3
MaxChunk == 2
MaxResolve == 2

\* ------------------------------------------------------------- values ----
\* Python None / SQL NULL for a cursor value (cursor values are 0..MaxVal)
None == -1
CursorVals == 0..MaxVal
NullableVals == CursorVals \cup {None}

Backends == {"sqlalchemy", "pyarrow", "pandas", "connectorx"}
LastValueFuncs == {"max", "min", "custom"}
RowOrders == {"None", "asc", "desc"}
MissingPolicies == {"raise", "include", "exclude"}

DbColumns == {"id", "ts", "val"}
TableName == "events"

NoIncremental ==
    [supplied |-> FALSE, cursor_path |-> "None", last_value |-> None,
     end_value |-> None, last_value_func |-> "max", row_order |-> "None",
     on_cursor_value_missing |-> "raise", primary_key |-> "None"]

Incrementals(paths, lasts, ends, funcs, orders, policies, pks) ==
    [supplied : {TRUE}, cursor_path : paths, last_value : lasts,
     end_value : ends, last_value_func : funcs, row_order : orders,
     on_cursor_value_missing : policies, primary_key : pks]

\* all row sequences of a table: the value of the cursor column of each row
SeqsUpTo(S, n) == UNION {[1..k -> S] : k \in 0..n}
AllRows == SeqsUpTo(NullableVals, MaxRows)

Min(a, b) == IF a < b THEN a ELSE b

\* ------------------------------------------------------ TableLoader ------
NoLoader ==
    [cursor_column |-> "None", last_value |-> None, end_value |-> None,
     row_order |-> "None", on_cursor_value_missing |-> "None"]

CursorColumnAlwaysFound(tbl, inc) == TRUE
\* table.c[incremental.cursor_path] succeeds
CursorColumnExists(tbl, inc) == inc.cursor_path \in tbl.columns

\* TableLoader.__init__ : fields copied from the incremental
TableLoader(tbl, inc) ==
    IF inc.supplied
    THEN [cursor_column |-> inc.cursor_path, last_value |-> inc.last_value,
          end_value |-> inc.end_value, row_order |-> inc.row_order,
          on_cursor_value_missing |-> inc.on_cursor_value_missing]
    ELSE NoLoader

\* ---------------------------------------------------- query building -----
\* a WHERE clause is a tree of tuples over the cursor column:
\*   <<"true">>  <<"ge", v>>  <<"le", v>>  <<"lt", v>>  <<"gt", v>>
\*   <<"is_null">>  <<"isnot_null">>  <<"and", a, b>>  <<"or", a, b>>
\* <<"none">> is a query without WHERE
True == <<"true">>
NoWhere == <<"none">>
sa_and(a, b) == <<"and", a, b>>
sa_or(a, b) == <<"or", a, b>>

\* table.select()
Select == [where |-> NoWhere, order_by |-> "None"]

FilterOpGt(func) == IF func = "max" THEN "gt" ELSE "le"
\* operator.ge for max, operator.le for min
FilterOp(func) == IF func = "max" THEN "ge" ELSE "le"

\* operator.lt for max, operator.gt for min
FilterOpEnd(func) == IF func = "max" THEN "lt" ELSE "gt"

WhereClauseExcludeNested(loader, func) ==
    LET w0 == True
        w1 == IF loader.last_value # None
              THEN <<FilterOp(func), loader.last_value>> ELSE w0
        w2 == IF loader.last_value # None /\ loader.end_value # None
              THEN sa_and(w1, <<FilterOpEnd(func), loader.end_value>>) ELSE w1
        w3 == IF loader.last_value # None
                 /\ loader.on_cursor_value_missing = "include"
              THEN sa_or(w2, <<"is_null">>) ELSE w2
        w4 == IF loader.last_value # None
                 /\ loader.on_cursor_value_missing = "exclude"
              THEN sa_and(w3, <<"isnot_null">>) ELSE w3
    IN  w4

WhereClauseIncludeBeforeEnd(loader, func) ==
    LET w0 == True
        w1 == IF loader.last_value # None
              THEN <<FilterOp(func), loader.last_value>> ELSE w0
        w2 == IF loader.last_value # None
                 /\ loader.on_cursor_value_missing = "include"
              THEN sa_or(w1, <<"is_null">>) ELSE w1
        w3 == IF loader.last_value # None /\ loader.end_value # None
              THEN sa_and(w2, <<FilterOpEnd(func), loader.end_value>>) ELSE w2
        w4 == IF loader.on_cursor_value_missing = "exclude"
              THEN sa_and(w3, <<"isnot_null">>) ELSE w3
    IN  w4

WhereClauseEndAlone(loader, func) ==
    LET w0 == True
        w1 == IF loader.last_value # None
              THEN <<FilterOp(func), loader.last_value>> ELSE w0
        w2 == IF loader.end_value # None
              THEN sa_and(w1, <<FilterOpEnd(func), loader.end_value>>) ELSE w1
        w3 == IF loader.last_value # None
                 /\ loader.on_cursor_value_missing = "include"
              THEN sa_or(w2, <<"is_null">>) ELSE w2
        w4 == IF loader.on_cursor_value_missing = "exclude"
              THEN sa_and(w3, <<"isnot_null">>) ELSE w3
    IN  w4

\* where_clause of _make_query, for last_value_func max or min
WhereClause(loader, func) ==
    LET w0 == True
        w1 == IF loader.last_value # None
              THEN <<FilterOp(func), loader.last_value>> ELSE w0
        w2 == IF loader.last_value # None /\ loader.end_value # None
              THEN sa_and(w1, <<FilterOpEnd(func), loader.end_value>>) ELSE w1
        w3 == IF loader.last_value # None
                 /\ loader.on_cursor_value_missing = "include"
              THEN sa_or(w2, <<"is_null">>) ELSE w2
        w4 == IF loader.on_cursor_value_missing = "exclude"
              THEN sa_and(w3, <<"isnot_null">>) ELSE w3
    IN  w4

OrderBySwapped(row_order, func) ==
    IF (row_order = "asc" /\ func = "max") \/ (row_order = "desc" /\ func = "min")
    THEN "desc"
    ELSE IF (row_order = "asc" /\ func = "min")
            \/ (row_order = "desc" /\ func = "max")
         THEN "asc"
         ELSE "None"

\* order_by of _make_query, for last_value_func max or min
OrderBy(row_order, func) ==
    IF (row_order = "asc" /\ func = "max") \/ (row_order = "desc" /\ func = "min")
    THEN "asc"
    ELSE IF (row_order = "asc" /\ func = "min")
            \/ (row_order = "desc" /\ func = "max")
         THEN "desc"
         ELSE "None"

\* the part of _make_query after last_value_func is known to be max or min
BoundedQuery(loader, func) ==
    LET where_clause == WhereClause(loader, func)
    IN  [where |-> IF where_clause[1] # "true" THEN where_clause ELSE NoWhere,
         order_by |-> OrderBy(loader.row_order, func)]

_make_query_no_bypass(loader, inc) ==
    IF ~inc.supplied
    THEN Select
    ELSE BoundedQuery(loader, IF inc.last_value_func = "min" THEN "min" ELSE "max")

\* TableLoader._make_query
_make_query(loader, inc) ==
    IF ~inc.supplied
    THEN Select
    ELSE IF inc.last_value_func \in {"max", "min"}
         THEN BoundedQuery(loader, inc.last_value_func)
         ELSE Select

\* a caller-supplied query adapter: "only_nulls" replaces the predicate of
\* the built query by "cursor IS NULL" and drops the ordering
QueryAdapters == {"None", "only_nulls"}
QueryAdapterCallback(adapter, q, tbl) ==
    IF adapter = "only_nulls"
    THEN [where |-> <<"is_null">>, order_by |-> "None"]
    ELSE q

make_query_ignores_adapter(loader, inc, adapter_name, tbl) ==
    _make_query(loader, inc)

\* TableLoader.make_query
make_query(loader, inc, adapter, tbl) ==
    IF adapter # "None"
    THEN QueryAdapterCallback(adapter, _make_query(loader, inc), tbl)
    ELSE _make_query(loader, inc)

\* ------------------------------------------- the database's evaluation ---
\* SQL three-valued logic: "T", "F" or "N" (unknown)
And3(a, b) == IF a = "F" \/ b = "F" THEN "F"
              ELSE IF a = "N" \/ b = "N" THEN "N" ELSE "T"
Or3(a, b) == IF a = "T" \/ b = "T" THEN "T"
             ELSE IF a = "N" \/ b = "N" THEN "N" ELSE "F"
Bool3(b) == IF b THEN "T" ELSE "F"

RECURSIVE Eval(_, _)
Eval(w, c) ==
    CASE w[1] \in {"true", "none"} -> "T"
      [] w[1] = "is_null" -> Bool3(c = None)
      [] w[1] = "isnot_null" -> Bool3(c # None)
      [] w[1] = "ge" -> IF c = None THEN "N" ELSE Bool3(c >= w[2])
      [] w[1] = "le" -> IF c = None THEN "N" ELSE Bool3(c <= w[2])
      [] w[1] = "lt" -> IF c = None THEN "N" ELSE Bool3(c < w[2])
      [] w[1] = "gt" -> IF c = None THEN "N" ELSE Bool3(c > w[2])
      [] w[1] = "and" -> And3(Eval(w[2], c), Eval(w[3], c))
      [] w[1] = "or" -> Or3(Eval(w[2], c), Eval(w[3], c))

\* rows (by position in the table) the WHERE clause selects
Matching(q, rows) == {i \in 1..Len(rows) : Eval(q.where, rows[i]) = "T"}

Injective(s) == \A i, j \in DOMAIN s : s[i] = s[j] => i = j

\* ORDER BY: non-null values monotone, NULLs all first or all last (the
\* dialect decides); ties and unordered queries come back in any order
Ordered(s, rows, order_by) ==
    \/ order_by = "None"
    \/ /\ \A i, j \in DOMAIN s :
            (i < j /\ rows[s[i]] # None /\ rows[s[j]] # None) =>
                IF order_by = "asc" THEN rows[s[i]] <= rows[s[j]]
                                    ELSE rows[s[i]] >= rows[s[j]]
       /\ \/ \A i, j \in DOMAIN s : (i < j /\ rows[s[j]] = None) => rows[s[i]] = None
          \/ \A i, j \in DOMAIN s : (i < j /\ rows[s[i]] = None) => rows[s[j]] = None

\* every result the database may return for the query: sequences of row
\* positions
Execute(q, rows) ==
    LET m == Matching(q, rows)
    IN  {s \in [1..Cardinality(m) -> m] : Injective(s) /\ Ordered(s, rows, q.order_by)}


\* ---------------------------------------------------------- the state ----
VARIABLES
    credentials,            \* what the caller hands to engine_from_credentials
    engine,                 \* the Engine: who made it, its flag, dispose() calls
    resolve_calls,          \* calls of engine_from_credentials so far
    resolve_arg,            \* may_dispose_after_use argument of the last call
    backend, defer_table_reflect, chunk_size, query_adapter_callback,
    db,                     \* the live database: schema and rows of the table
    table,                  \* the Table object held by table_rows
    incremental,            \* the caller's Incremental object
    loader,                 \* the TableLoader's own fields
    query,                  \* the query load_rows hands to its backend
    result,                 \* the rows of the executed query, in their order
    pos,                    \* rows of the result already fetched
    out,                    \* the items the generator has yielded
    pc,                     \* where the generator stands
    exit_by,                \* how the iteration ended or is ending
    error,                  \* the exception propagated to the caller
    conn_opened, conn_released,  \* engine.connect() entered / exited
    executed,               \* conn.execute(query) calls
    cx_calls,               \* cx.read_sql calls
    backend_kwargs,         \* the caller's backend_kwargs mapping
    adapter_calls,          \* calls of query_adapter_callback
    adapter_arg,            \* the arguments of the last such call
    compiled,               \* outcome of query.compile(literal_binds=True)
    cx_call                 \* the arguments cx.read_sql was called with

vars == <<credentials, engine, resolve_calls, resolve_arg, backend,
          defer_table_reflect, chunk_size, query_adapter_callback, db, table,
          incremental, loader, query, result, pos, out, pc, exit_by, error,
          conn_opened, conn_released, executed, cx_calls, backend_kwargs,
          adapter_calls, adapter_arg, compiled, cx_call>>

adapter == <<adapter_calls, adapter_arg>>
bulk_export == <<compiled, cx_call>>

config == <<backend, defer_table_reflect, chunk_size, query_adapter_callback, db>>
counters == <<conn_opened, conn_released, executed, cx_calls>>
resolution == <<credentials, resolve_calls, resolve_arg>>

\* ------------------------------------------------------------ engine -----
NoEngine == [origin |-> "none", may_dispose_after_use |-> "unset", disposed |-> 0]
\* an engine the caller made with create_engine: the attribute is not set
ExternalEngine == [origin |-> "external", may_dispose_after_use |-> "unset",
                   disposed |-> 0]
CredentialKinds == {"Engine", "ConnectionStringCredentials", "str"}

PyBool(b) == IF b THEN "True" ELSE "False"

engine_from_credentials_tags_always(creds, eng, may_dispose_after_use) ==
    IF creds = "Engine"
    THEN [eng EXCEPT !.may_dispose_after_use = PyBool(may_dispose_after_use)]
    ELSE [origin |-> "created",
          may_dispose_after_use |-> PyBool(may_dispose_after_use),
          disposed |-> 0]

\* engine_from_credentials: the engine it returns
engine_from_credentials(creds, eng, may_dispose_after_use) ==
    IF creds = "Engine"
    THEN eng
    ELSE [origin |-> "created",
          may_dispose_after_use |-> PyBool(may_dispose_after_use),
          disposed |-> 0]

\* getattr(engine, "may_dispose_after_use", False)
MayDispose(eng) == eng.may_dispose_after_use = "True"

DisposeTwice(eng) == [eng EXCEPT !.disposed = @ + 2]
\* engine.dispose()
Dispose(eng) == [eng EXCEPT !.disposed = @ + 1]

\* ------------------------------------------------------------- items -----
\* an exception: its type, the column and table its message names, and the
\* text of the causing exception its message embeds
NoError == [type |-> "None", column |-> "None", table |-> "None", detail |-> "None"]
Raise(type) ==
    [type |-> type, column |-> "None", table |-> "None", detail |-> "None"]

\* dlt.mark.with_hints([], make_hints(primary_key=get_primary_key(table),
\*                                     columns=columns))
ControlRecord(tbl) ==
    [kind |-> "control", encoding |-> "hints", rows |-> <<>>,
     primary_key |-> tbl.primary_key, columns |-> tbl.columns]

\* one data item in the encoding of the backend
Chunk(bk, rows) ==
    [kind |-> "data", encoding |-> bk, rows |-> rows,
     primary_key |-> "None", columns |-> {}]

\* Table(name, metadata) before reflection / after autoload_with=engine
Stub == [name |-> TableName, columns |-> {}, primary_key |-> "None"]
Reflected(d) == [name |-> TableName, columns |-> d.columns,
                 primary_key |-> d.primary_key]

\* the context manager of engine.connect(): __exit__ releases the connection
ConnExitLeaks(released) == released
ConnExit(released) == released + 1


\* an exception raised inside load_rows is not caught there: control leaves
\* for the finally of table_rows
RetryFrom(p) == p
Propagate(p) == "finally"

\* ------------------------------------------------------- load_rows -------
DispatchInProcess(bk) == "connect"
\* if self.backend == "connectorx": ... else: ...
Dispatch(bk) == IF bk = "connectorx" THEN "connectorx" ELSE "connect"

\* number of calls make_query makes to the query adapter
AdapterCalls(adapter_name) == IF adapter_name # "None" THEN 1 ELSE 0
NoAdapterArg == [query |-> Select, table |-> Stub]

PartitionRowsOneMore(res, p, k) == SubSeq(res, p + 1, Min(p + k + 1, Len(res)))
\* one partition of result.partitions(size=chunk_size): the next k rows, or
\* the rows that are left
PartitionRows(res, p, k) == SubSeq(res, p + 1, Min(p + k, Len(res)))

\* ------------------------------------------------ connectorx options -----
\* a mapping is a function from its keys; the caller may set any of these
KwargKeys == {"return_type", "protocol", "conn"}
CallerValue(k) ==
    CASE k = "return_type" -> <<"pandas">>
      [] k = "protocol" -> <<"csv">>
      [] k = "conn" -> <<"mssql", "None", "other/db">>
CallerKwargs == {[k \in keys |-> CallerValue(k)] : keys \in SUBSET KwargKeys}
EmptyKwargs == [k \in {} |-> <<>>]

\* engine.url: drivername "postgresql+psycopg2" and the rest of the URL
EngineUrl == [backend_name |-> "postgresql", driver |-> "psycopg2",
              rest |-> "user:secret@host/db"]
get_backend_name(url) == url.backend_name

ConnStringKeepsDriver(url) == <<url.backend_name, url.driver, url.rest>>
\* engine.url._replace(drivername=get_backend_name()).render_as_string(
\*     hide_password=False): <<scheme, driver, rest>>
ConnString(url) == <<get_backend_name(url), "None", url.rest>>

\* default settings
CxDefaults == [return_type |-> <<"arrow2">>, protocol |-> <<"binary">>]

\* dict(backend_kwargs or {}): a copy, the caller's mapping is not aliased
CopyKwargs(kw) == kw

MergeKwargsDefaultsWin(kw) == CxDefaults @@ kw
\* {"return_type": "arrow2", "protocol": "binary", **backend_kwargs}
MergeKwargs(kw) == kw @@ CxDefaults

\* backend_kwargs.pop("conn", <rendered url>): the value, and what is left
PopConn(merged, url) ==
    IF "conn" \in DOMAIN merged THEN merged["conn"] ELSE ConnString(url)
WithoutConn(merged) == [k \in DOMAIN merged \ {"conn"} |-> merged[k]]

\* the caller's mapping after the pop, which acts on the merged mapping
CallerKwargsAfterPop(kw) == kw

\* cx.read_sql(conn, query_str, **backend_kwargs)
CxCall(kw, url, q) ==
    [conn |-> PopConn(MergeKwargs(CopyKwargs(kw)), url),
     query |-> q,
     kwargs |-> WithoutConn(MergeKwargs(CopyKwargs(kw)))]
NoCxCall == [conn |-> <<"None", "None", "None">>, query |-> Select,
             kwargs |-> EmptyKwargs]

NotImplementedNoText(tbl, ex) ==
    [type |-> "NotImplementedError", column |-> "None", table |-> tbl.name,
     detail |-> "None"]
\* raise NotImplementedError(f"Query for table {self.table.name} ... {str(ex)}")
NotImplemented(tbl, ex) ==
    [type |-> "NotImplementedError", column |-> "None", table |-> tbl.name,
     detail |-> ex]

\* ---------------------------------------------------- initial states -----
\* tables of an extraction run: n rows, the second one with a NULL cursor
RunRows == {[i \in 1..n |-> IF i = 2 THEN None ELSE (i - 1) % (MaxVal + 1)] :
            n \in 0..MaxRows}

RunIncrementals ==
    {NoIncremental} \cup
    Incrementals({"ts", "missing_col"}, {None, 1}, {None}, LastValueFuncs,
                 {"None"}, {"raise"}, {"None", "user_pk"})

QueryIncrementals ==
    {NoIncremental} \cup
    Incrementals({"ts"}, NullableVals, NullableVals, LastValueFuncs,
                 RowOrders, MissingPolicies, {"None"})

InitRun ==
    /\ resolve_calls = 0
    /\ resolve_arg = FALSE
    /\ loader = NoLoader
    /\ query = Select
    /\ result = <<>>
    /\ pos = 0
    /\ out = <<>>
    /\ exit_by = "none"
    /\ error = NoError
    /\ conn_opened = 0
    /\ conn_released = 0
    /\ executed = 0
    /\ cx_calls = 0
    /\ adapter_calls = 0
    /\ adapter_arg = NoAdapterArg
    /\ compiled = "none"
    /\ cx_call = NoCxCall

Init ==
    /\ InitRun
    /\ credentials \in CredentialKinds
    /\ engine = IF credentials = "Engine" THEN ExternalEngine ELSE NoEngine
    /\ backend \in Backends
    /\ defer_table_reflect \in BOOLEAN
    /\ chunk_size \in 1..MaxChunk
    /\ query_adapter_callback \in QueryAdapters
    /\ db \in [columns : {DbColumns}, primary_key : {"None", "id"}, rows : RunRows]
    /\ table = IF defer_table_reflect THEN Stub ELSE Reflected(db)
    /\ incremental \in RunIncrementals
    /\ backend_kwargs \in IF backend = "connectorx" THEN CallerKwargs
                                                    ELSE {EmptyKwargs}
    /\ pc = "resolve"

\* ------------------------------------------- engine_from_credentials -----
ResolveEngine ==
    /\ pc = "resolve"
    /\ resolve_calls < MaxResolve
    /\ \E may_dispose_after_use \in BOOLEAN :
         /\ engine' = engine_from_credentials(credentials, engine,
                                              may_dispose_after_use)
         /\ resolve_arg' = may_dispose_after_use
    /\ credentials' = "Engine"      \* the caller now holds an Engine
    /\ resolve_calls' = resolve_calls + 1
    /\ UNCHANGED <<backend_kwargs, adapter, bulk_export, config, counters, table,
                   incremental, loader, query, result, pos, out, pc, exit_by,
                   error>>

\* ---------------------------------------------------------- table_rows ---
\* table_rows(engine, ...) is called: the generator exists, nothing has run
CallTableRows ==
    /\ pc = "resolve"
    /\ engine.origin # "none"
    /\ pc' = "created"
    /\ UNCHANGED <<backend_kwargs, adapter, bulk_export, resolution, engine, config, counters, table, incremental,
                   loader, query, result, pos, out, exit_by, error>>

\* the consumer closes a generator it never started: no code of it runs
CloseUnstarted ==
    /\ pc = "created"
    /\ exit_by' = "close"
    /\ pc' = "ended"
    /\ UNCHANGED <<backend_kwargs, adapter, bulk_export, resolution, engine, config, counters, table, incremental,
                   loader, query, result, pos, out, error>>

YieldNoHints(o, tbl) == o
\* yield dlt.mark.with_hints([], make_hints(...))
YieldHints(o, tbl) == Append(o, ControlRecord(tbl))

SetPrimaryKeyResetsCursor(inc, tbl) ==
    IF inc.supplied /\ inc.primary_key = "None" /\ tbl.primary_key # "None"
    THEN [inc EXCEPT !.primary_key = tbl.primary_key, !.last_value = None]
    ELSE inc

SetPrimaryKeyOverwrites(inc, tbl) ==
    IF inc.supplied /\ tbl.primary_key # "None"
    THEN [inc EXCEPT !.primary_key = tbl.primary_key]
    ELSE inc

\* the primary key of the incremental after "set the primary_key in the
\* incremental"
SetPrimaryKey(inc, tbl) ==
    IF inc.supplied /\ inc.primary_key = "None" /\ tbl.primary_key # "None"
    THEN [inc EXCEPT !.primary_key = tbl.primary_key]
    ELSE inc

\* first next() with defer_table_reflect: reflect, set the primary key, yield
\* the hints; the reflection may fail
Reflect ==
    /\ pc = "created"
    /\ defer_table_reflect
    /\ \E ok \in BOOLEAN :
         IF ok
         THEN /\ table' = Reflected(db)
              /\ incremental' = SetPrimaryKey(incremental, Reflected(db))
              /\ out' = YieldHints(out, Reflected(db))
              /\ pc' = "control"
              /\ UNCHANGED <<exit_by, error>>
         ELSE /\ error' = Raise("ReflectionError")
              /\ exit_by' = "error"
              /\ pc' = "ended"
              /\ UNCHANGED <<table, incremental, out>>
    /\ UNCHANGED <<backend_kwargs, adapter, bulk_export, resolution, engine, config, counters, loader, query, result,
                   pos>>

\* the consumer closes the generator suspended at the hints: GeneratorExit is
\* raised at the yield, which is outside the try
CloseAtControl ==
    /\ pc = "control"
    /\ exit_by' = "close"
    /\ pc' = "ended"
    /\ UNCHANGED <<backend_kwargs, adapter, bulk_export, resolution, engine, config, counters, table, incremental,
                   loader, query, result, pos, out, error>>

\* loader = TableLoader(...): reached by the first next() when the table was
\* already reflected, by the next() after the hints otherwise
ConstructLoader ==
    /\ \/ pc = "created" /\ ~defer_table_reflect
       \/ pc = "control"
    /\ IF incremental.supplied /\ ~CursorColumnExists(table, incremental)
       THEN /\ error' = [type |-> "KeyError", column |-> incremental.cursor_path,
                         table |-> table.name, detail |-> "None"]
            /\ exit_by' = "error"
            /\ pc' = "ended"
            /\ UNCHANGED loader
       ELSE /\ loader' = TableLoader(table, incremental)
            /\ pc' = "load_rows"
            /\ UNCHANGED <<exit_by, error>>
    /\ UNCHANGED <<backend_kwargs, adapter, bulk_export, resolution, engine, config, counters, table, incremental,
                   query, result, pos, out>>

\* TableLoader.load_rows up to the dispatch on the backend
LoadRows ==
    /\ pc = "load_rows"
    /\ query' = make_query(loader, incremental, query_adapter_callback, table)
    /\ adapter_calls' = adapter_calls + AdapterCalls(query_adapter_callback)
    /\ adapter_arg' = IF query_adapter_callback # "None"
                      THEN [query |-> _make_query(loader, incremental),
                            table |-> table]
                      ELSE adapter_arg
    /\ pc' = Dispatch(backend)
    /\ UNCHANGED <<backend_kwargs, bulk_export, resolution, engine, config, counters, table, incremental,
                   loader, result, pos, out, exit_by, error>>

\* _load_rows: with engine.connect() as conn, execute(query), result.keys()
Connect ==
    /\ pc = "connect"
    /\ \E outcome \in {"ok", "connect_fails", "execute_fails"} :
         CASE outcome = "ok" ->
                /\ conn_opened' = conn_opened + 1
                /\ executed' = executed + 1
                /\ result' \in Execute(query, db.rows)
                /\ pos' = 0
                /\ pc' = "partition"
                /\ UNCHANGED <<conn_released, exit_by, error>>
           [] outcome = "connect_fails" ->
                /\ error' = Raise("DBError")
                /\ exit_by' = "error"
                /\ pc' = Propagate(pc)
                /\ UNCHANGED <<conn_opened, conn_released, executed, result, pos>>
           [] outcome = "execute_fails" ->
                /\ conn_opened' = conn_opened + 1
                /\ executed' = executed + 1
                /\ conn_released' = ConnExit(conn_released)
                /\ error' = Raise("DBError")
                /\ exit_by' = "error"
                /\ pc' = Propagate(pc)
                /\ UNCHANGED <<result, pos>>
    /\ UNCHANGED <<backend_kwargs, adapter, bulk_export, resolution, engine, config, cx_calls, table, incremental,
                   loader, query, out>>

\* for partition in result.partitions(size=self.chunk_size): fetch, convert,
\* yield; leaving the loop leaves the with block
Partition ==
    /\ pc = "partition"
    /\ IF pos = Len(result)
       THEN /\ conn_released' = ConnExit(conn_released)
            /\ exit_by' = "exhausted"
            /\ pc' = "finally"
            /\ UNCHANGED <<pos, out, error>>
       ELSE \E ok \in BOOLEAN :
              IF ok
              THEN LET partition == PartitionRows(result, pos, chunk_size)
                   IN  /\ out' = Append(out, Chunk(backend, partition))
                       /\ pos' = pos + Len(partition)
                       /\ pc' = "chunk"
                       /\ UNCHANGED <<conn_released, exit_by, error>>
              ELSE /\ conn_released' = ConnExit(conn_released)
                   /\ error' = Raise("DBError")
                   /\ exit_by' = "error"
                   /\ pc' = Propagate(pc)
                   /\ UNCHANGED <<pos, out>>
    /\ UNCHANGED <<backend_kwargs, adapter, bulk_export, resolution, engine, config, conn_opened, executed, cx_calls,
                   table, incremental, loader, query, result>>

\* next() on the generator suspended at a chunk
ResumeChunk ==
    /\ pc = "chunk"
    /\ pc' = "partition"
    /\ UNCHANGED <<backend_kwargs, adapter, bulk_export, resolution, engine, config, counters, table, incremental,
                   loader, query, result, pos, out, exit_by, error>>

\* close() on the generator suspended at a chunk: GeneratorExit leaves the
\* with block
CloseAtChunk ==
    /\ pc = "chunk"
    /\ conn_released' = ConnExit(conn_released)
    /\ exit_by' = "close"
    /\ pc' = "finally"
    /\ UNCHANGED <<backend_kwargs, adapter, bulk_export, resolution, engine, config, conn_opened, executed, cx_calls,
                   table, incremental, loader, query, result, pos, out, error>>

\* _load_rows_connectorx: import, compile to literal SQL, cx.read_sql, yield
Connectorx ==
    /\ pc = "connectorx"
    /\ \E outcome \in {"ok", "import_fails", "compile_fails", "read_fails"} :
         CASE outcome = "ok" ->
                /\ backend_kwargs' = CallerKwargsAfterPop(backend_kwargs)
                /\ compiled' = "ok"
                /\ cx_calls' = cx_calls + 1
                /\ cx_call' = CxCall(backend_kwargs, EngineUrl, query)
                /\ \E df \in Execute(query, db.rows) :
                     /\ result' = df
                     /\ out' = Append(out, Chunk(backend, df))
                /\ pc' = "cx_item"
                /\ UNCHANGED <<exit_by, error>>
           [] outcome = "import_fails" ->
                /\ error' = Raise("MissingDependencyException")
                /\ exit_by' = "error"
                /\ pc' = Propagate(pc)
                /\ UNCHANGED <<backend_kwargs, bulk_export, cx_calls, result, out>>
           [] outcome = "compile_fails" ->
                /\ backend_kwargs' = CallerKwargsAfterPop(backend_kwargs)
                /\ compiled' = "CompileError"
                /\ error' = NotImplemented(table, "CompileError")
                /\ exit_by' = "error"
                /\ pc' = Propagate(pc)
                /\ UNCHANGED <<cx_call, cx_calls, result, out>>
           [] outcome = "read_fails" ->
                /\ backend_kwargs' = CallerKwargsAfterPop(backend_kwargs)
                /\ compiled' = "ok"
                /\ cx_calls' = cx_calls + 1
                /\ cx_call' = CxCall(backend_kwargs, EngineUrl, query)
                /\ error' = Raise("DBError")
                /\ exit_by' = "error"
                /\ pc' = Propagate(pc)
                /\ UNCHANGED <<result, out>>
    /\ UNCHANGED <<adapter, resolution, engine, config, conn_opened,
                   conn_released, executed, table, incremental, loader, query,
                   pos>>

\* next() on the generator suspended at the connectorx result: it returns
ResumeCx ==
    /\ pc = "cx_item"
    /\ exit_by' = "exhausted"
    /\ pc' = "finally"
    /\ UNCHANGED <<backend_kwargs, adapter, bulk_export, resolution, engine, config, counters, table, incremental,
                   loader, query, result, pos, out, error>>

\* close() on the generator suspended at the connectorx result
CloseAtCx ==
    /\ pc = "cx_item"
    /\ exit_by' = "close"
    /\ pc' = "finally"
    /\ UNCHANGED <<backend_kwargs, adapter, bulk_export, resolution, engine, config, counters, table, incremental,
                   loader, query, result, pos, out, error>>

\* finally: dispose the engine if created for this particular table
Finally ==
    /\ pc = "finally"
    /\ engine' = IF MayDispose(engine) THEN Dispose(engine) ELSE engine
    /\ pc' = "ended"
    /\ UNCHANGED <<backend_kwargs, adapter, bulk_export, resolution, config, counters, table, incremental, loader,
                   query, result, pos, out, exit_by, error>>

Next ==
    \/ ResolveEngine
    \/ CallTableRows
    \/ CloseUnstarted
    \/ Reflect
    \/ CloseAtControl
    \/ ConstructLoader
    \/ LoadRows
    \/ Connect
    \/ Partition
    \/ ResumeChunk
    \/ CloseAtChunk
    \/ Connectorx
    \/ ResumeCx
    \/ CloseAtCx
    \/ Finally

Spec == Init /\ [][Next]_vars

\* ------------------------------------------ the query builder alone ------
InitQuery ==
    /\ InitRun
    /\ credentials = "Engine"
    /\ engine = ExternalEngine
    /\ backend = "sqlalchemy"
    /\ defer_table_reflect = FALSE
    /\ chunk_size = 1
    /\ query_adapter_callback = "None"
    /\ db \in [columns : {DbColumns}, primary_key : {"None"}, rows : AllRows]
    /\ table = Reflected(db)
    /\ incremental \in QueryIncrementals
    /\ backend_kwargs = EmptyKwargs
    /\ pc = "q_init"

\* TableLoader(...)._make_query()
BuildQuery ==
    /\ pc = "q_init"
    /\ loader' = TableLoader(table, incremental)
    /\ query' = _make_query(TableLoader(table, incremental), incremental)
    /\ pc' = "q_built"
    /\ UNCHANGED <<backend_kwargs, adapter, bulk_export, resolution, engine, config, counters, table, incremental,
                   result, pos, out, exit_by, error>>

\* the database evaluates the built query
RunQuery ==
    /\ pc = "q_built"
    /\ result' \in Execute(query, db.rows)
    /\ pc' = "q_done"
    /\ UNCHANGED <<backend_kwargs, adapter, bulk_export, resolution, engine, config, counters, table, incremental,
                   loader, query, pos, out, exit_by, error>>

NextQuery == BuildQuery \/ RunQuery

SpecQuery == InitQuery /\ [][NextQuery]_vars

TypeOK ==
    /\ engine.disposed \in 0..1
    /\ pos \in 0..MaxRows
    /\ conn_released <= conn_opened


\* ============================================================ claims =====
Ended == pc = "ended"
\* the iteration was started: some code of the generator ran
Started == ~(exit_by = "close" /\ out = <<>>) /\ pc \notin {"resolve", "created"}
DataItems == {i \in DOMAIN out : out[i].kind = "data"}
ControlItems == {i \in DOMAIN out : out[i].kind = "control"}

\* C1: whenever a started iteration over an engine whose
\* may_dispose_after_use flag is true has ended (exhaustion, propagated
\* error at any point, or the consumer closing at any yielded item),
\* engine.dispose() has been called.
C1_DisposedOnEveryExit ==
    (Ended /\ Started /\ MayDispose(engine)) => engine.disposed >= 1

\* C2: an externally supplied engine is never disposed and never tagged:
\* engine_from_credentials given an Engine returns it unchanged whatever the
\* may_dispose_after_use argument, and in every state of a run over an
\* external engine dispose() has not been called and the flag is not set.
C2_ExternalEngineUntouched ==
    /\ [](engine.origin = "external" => engine = ExternalEngine)
    /\ [][(credentials = "Engine" /\ resolve_calls' # resolve_calls)
            => engine' = engine]_vars

C2_Witness ==
    /\ Ended
    /\ exit_by = "exhausted"
    /\ engine.origin = "external"
    /\ resolve_calls > 0
    /\ resolve_arg = TRUE
    /\ engine.disposed = 0
    /\ Len(out) > 0

\* C3: on the in-process path the connection opened by engine.connect() is
\* released exactly once on every exit path: it is never released more often
\* than opened, at most one is opened, and once the streamed read has ended
\* (exhaustion, close at a chunk, error in execute or in a chunk) none is open.
C3_ConnectionReleasedOnce ==
    /\ conn_released <= conn_opened
    /\ conn_opened <= 1
    /\ (pc \in {"finally", "ended"} => conn_released = conn_opened)

C3_Witness ==
    /\ Ended
    /\ exit_by = "close"
    /\ backend = "pandas"
    /\ conn_opened = 1
    /\ conn_released = 1
    /\ pos < Len(result)

\* C4: with defer_table_reflect the output holds exactly one control record
\* (zero rows, the reflected primary key and columns), it is the first
\* element, and it is there before the data query is executed or a data chunk
\* is emitted; without defer_table_reflect there is none; never more than one.
C4_ControlRecordFirst ==
    /\ Cardinality(ControlItems) <= 1
    /\ ~defer_table_reflect => ControlItems = {}
    /\ \A i \in ControlItems : i = 1 /\ out[i] = ControlRecord(Reflected(db))
    /\ (defer_table_reflect /\ out # <<>>) => out[1].kind = "control"
    /\ (defer_table_reflect
          /\ (executed > 0 \/ cx_calls > 0 \/ exit_by = "exhausted"
                \/ DataItems # {}))
       => ControlItems = {1}

C4_Witness ==
    /\ Ended
    /\ exit_by = "exhausted"
    /\ defer_table_reflect
    /\ db.primary_key = "id"
    /\ Len(out) >= 3
    /\ out[1].kind = "control"
    /\ out[1].rows = <<>>
    /\ out[2].kind = "data"

\* C5: a cursor state whose cursor column is not among the table's columns
\* makes the extraction fail with a KeyError naming the column and the table
\* before any data query: the loader opens no connection, makes no
\* bulk-export call, and no data chunk is emitted, for every backend and
\* aggregation function.
MissingCursorColumn ==
    incremental.supplied /\ incremental.cursor_path \notin db.columns

C5_MissingCursorColumnFailsEarly ==
    MissingCursorColumn =>
        /\ conn_opened = 0
        /\ executed = 0
        /\ cx_calls = 0
        /\ DataItems = {}
        /\ pc \notin {"load_rows", "connect", "partition", "chunk",
                      "connectorx", "cx_item", "finally"}
        /\ exit_by # "exhausted"
        /\ (Ended /\ exit_by = "error" /\ error.type # "ReflectionError")
           => error = [type |-> "KeyError",
                       column |-> incremental.cursor_path,
                       table |-> TableName,
                       detail |-> "None"]

C5_Witness ==
    /\ Ended
    /\ MissingCursorColumn
    /\ error.type = "KeyError"
    /\ error.column = "missing_col"
    /\ backend = "connectorx"
    /\ incremental.last_value_func = "custom"
    /\ Len(db.rows) > 0

\* ---- claims about the built query
Returned == {result[i] : i \in DOMAIN result}
Rows == 1..Len(db.rows)
NullRows == {i \in Rows : db.rows[i] = None}

\* the bound window of the claim: lower bound, and end bound when set
InBound(c) ==
    /\ c # None
    /\ IF incremental.last_value_func = "max"
       THEN /\ c >= incremental.last_value
            /\ incremental.end_value # None => c < incremental.end_value
       ELSE /\ c <= incremental.last_value
            /\ incremental.end_value # None => c > incremental.end_value

MaxOrMin == incremental.supplied /\ incremental.last_value_func \in {"max", "min"}

\* C6: with the default missing-value policy and last_value = v, the rows
\* returned are exactly the rows with cursor >= v (max) or cursor <= v (min),
\* narrowed to v <= cursor < w (max) or w < cursor <= v (min) when
\* end_value = w is set.
C6_BoundPredicate ==
    (pc = "q_done" /\ MaxOrMin /\ incremental.last_value # None
       /\ incremental.on_cursor_value_missing = "raise")
    => Returned = {i \in Rows : InBound(db.rows[i])}

C6_Witness ==
    /\ pc = "q_done"
    /\ incremental.supplied
    /\ incremental.last_value_func = "max"
    /\ incremental.on_cursor_value_missing = "raise"
    /\ incremental.last_value = 1
    /\ incremental.end_value = 2
    /\ db.rows = <<2, 1, None>>
    /\ Returned = {2}

\* C7 as stated: with the exclude policy no returned row has a null cursor
\* value, for every cursor state the caller may supply.
C7_ExcludeAnyCursorState ==
    (pc = "q_done" /\ incremental.supplied
       /\ incremental.on_cursor_value_missing = "exclude")
    => Returned \cap NullRows = {}

\* C7 amended: with the exclude policy and aggregation max or min no returned
\* row has a null cursor value, whether or not last_value is set.
C7_ExcludeMaxMin ==
    (pc = "q_done" /\ MaxOrMin
       /\ incremental.on_cursor_value_missing = "exclude")
    => Returned \cap NullRows = {}

C7_Witness ==
    /\ pc = "q_done"
    /\ MaxOrMin
    /\ incremental.on_cursor_value_missing = "exclude"
    /\ incremental.last_value = None
    /\ NullRows # {}
    /\ Returned = Rows \ NullRows
    /\ Returned # {}

\* C8: with the include policy, last_value set and aggregation max or min, the
\* rows returned are exactly the rows in the bound window together with every
\* row whose cursor is null, also when end_value is set.
C8_IncludeAddsNulls ==
    (pc = "q_done" /\ MaxOrMin /\ incremental.last_value # None
       /\ incremental.on_cursor_value_missing = "include")
    => Returned = {i \in Rows : InBound(db.rows[i])} \cup NullRows

C8_Witness ==
    /\ pc = "q_done"
    /\ MaxOrMin
    /\ incremental.on_cursor_value_missing = "include"
    /\ incremental.last_value = 1
    /\ incremental.end_value = 2
    /\ db.rows = <<None, 2, 1>>
    /\ Returned = {1, 3}

NonNull(s) == SelectSeq([i \in DOMAIN s |-> db.rows[s[i]]], LAMBDA c : c # None)
NonDecreasing(s) == \A i, j \in DOMAIN s : i < j => s[i] <= s[j]
NonIncreasing(s) == \A i, j \in DOMAIN s : i < j => s[i] >= s[j]

\* C9: ORDER BY on the cursor column is emitted only for row_order asc or
\* desc; (asc, max) and (desc, min) sort ascending, (asc, min) and (desc, max)
\* descending, so asc with max returns rows non-decreasing in the cursor and
\* asc with min non-increasing; with no row order there is no ORDER BY.
C9_Ordering ==
    (pc \in {"q_built", "q_done"}) =>
      LET ro == incremental.row_order
          f == incremental.last_value_func
      IN  /\ query.order_by # "None" => (incremental.supplied /\ ro \in {"asc", "desc"})
          /\ ro = "None" => query.order_by = "None"
          /\ (MaxOrMin /\ ((ro = "asc" /\ f = "max") \/ (ro = "desc" /\ f = "min")))
             => query.order_by = "asc"
          /\ (MaxOrMin /\ ((ro = "asc" /\ f = "min") \/ (ro = "desc" /\ f = "max")))
             => query.order_by = "desc"
          /\ (pc = "q_done" /\ MaxOrMin /\ ro = "asc" /\ f = "max")
             => NonDecreasing(NonNull(result))
          /\ (pc = "q_done" /\ MaxOrMin /\ ro = "asc" /\ f = "min")
             => NonIncreasing(NonNull(result))

C9_Witness ==
    /\ pc = "q_done"
    /\ MaxOrMin
    /\ incremental.row_order = "asc"
    /\ incremental.last_value_func = "min"
    /\ query.order_by = "desc"
    /\ db.rows = <<0, 2, 1>>
    /\ result = <<2, 3, 1>>

\* C10: when the aggregation function is neither max nor min, or no cursor
\* state is supplied, the built query is the plain table select, without
\* WHERE and without ORDER BY, whatever last_value, end_value, row_order and
\* the missing-value policy are; every row of the table is returned.
C10_CustomBypass ==
    (pc \in {"q_built", "q_done"} /\ ~MaxOrMin) =>
        /\ query = Select
        /\ query.where = NoWhere
        /\ query.order_by = "None"
        /\ pc = "q_done" => Returned = Rows

C10_Witness ==
    /\ pc = "q_done"
    /\ incremental.supplied
    /\ incremental.last_value_func = "custom"
    /\ incremental.last_value = 2
    /\ incremental.end_value = 1
    /\ incremental.row_order = "asc"
    /\ incremental.on_cursor_value_missing = "exclude"
    /\ db.rows = <<1, None, 0>>
    /\ Returned = {1, 2, 3}


\* ---- claims about loading
InProcess == backend # "connectorx"
DataSeq == SelectSeq(out, LAMBDA item : item.kind = "data")
RECURSIVE Concat(_)
Concat(items) ==
    IF Len(items) = 0 THEN <<>> ELSE Head(items).rows \o Concat(Tail(items))

\* C11: in the in-process path a result of N rows and chunk_size k >= 1 comes
\* out as ceil(N/k) chunks (none for N = 0); every chunk but possibly the
\* last has exactly k rows, none is empty, and the chunks concatenated in
\* emission order are the query result in its order.
C11_Chunking ==
    InProcess =>
      LET d == DataSeq
          N == Len(result)
          k == chunk_size
      IN  /\ Concat(d) = SubSeq(result, 1, pos)
          /\ \A i \in DOMAIN d :
                /\ Len(d[i].rows) >= 1
                /\ Len(d[i].rows) <= k
                /\ i < Len(d) => Len(d[i].rows) = k
          /\ exit_by = "exhausted" =>
                /\ Len(d) = (N + k - 1) \div k
                /\ Concat(d) = result

C11_Witness ==
    /\ Ended
    /\ exit_by = "exhausted"
    /\ InProcess
    /\ chunk_size = 2
    /\ Len(result) = 3
    /\ Len(DataSeq) = 2
    /\ Len(DataSeq[2].rows) = 1

\* C12: one extraction executes its data query at most once, by one
\* in-process execute on one connection or by one bulk-export call, never
\* both and never with two connections open; when the execution fails the
\* error is propagated to the caller and nothing is tried again.
C12_QueryExecutedAtMostOnce ==
    /\ executed + cx_calls <= 1
    /\ conn_opened <= 1
    /\ conn_opened - conn_released \in 0..1
    /\ executed <= conn_opened
    /\ exit_by = "error" => (error # NoError /\ pc \in {"finally", "ended"})
    /\ error # NoError => exit_by = "error"

C12_Witness ==
    /\ Ended
    /\ exit_by = "error"
    /\ error.type = "DBError"
    /\ executed = 1
    /\ conn_released = 1
    /\ DataItems = {}
    /\ Len(db.rows) > 0

\* C13: when the query cannot be compiled to literal SQL on the connectorx
\* path the loader raises NotImplementedError carrying the text of the
\* compilation failure and naming the table; the external reader is not
\* called and no chunk is emitted in that run.
C13_CompileErrorIsFatal ==
    compiled = "CompileError" =>
        /\ backend = "connectorx"
        /\ exit_by = "error"
        /\ pc \in {"finally", "ended"}
        /\ error = [type |-> "NotImplementedError", column |-> "None",
                    table |-> TableName, detail |-> "CompileError"]
        /\ cx_calls = 0
        /\ cx_call = NoCxCall
        /\ executed = 0
        /\ DataItems = {}

C13_Witness ==
    /\ Ended
    /\ compiled = "CompileError"
    /\ error.type = "NotImplementedError"
    /\ error.detail = "CompileError"
    /\ MayDispose(engine)
    /\ engine.disposed = 1

\* load_rows has built its query
Loaded ==
    \/ pc \in {"connect", "partition", "chunk", "connectorx", "cx_item", "finally"}
    \/ Ended /\ (exit_by = "exhausted" \/ DataItems # {})

\* C14: the query executed is what the caller's transform returns: with a
\* query adapter each load calls it exactly once, with the built base query
\* and the table, and executes its return value on both paths; without one
\* the built base query is executed unchanged.
C14_AdapterResultExecuted ==
    Loaded =>
      LET base == _make_query(loader, incremental)
          ran == (executed = 1 /\ pc \in {"partition", "chunk"}) \/ pc = "cx_item"
      IN  /\ query_adapter_callback = "None" =>
                /\ adapter_calls = 0
                /\ query = base
                /\ ran => Returned = Matching(base, db.rows)
          /\ query_adapter_callback = "only_nulls" =>
                /\ adapter_calls = 1
                /\ adapter_arg = [query |-> base, table |-> Reflected(db)]
                /\ query = [where |-> <<"is_null">>, order_by |-> "None"]
                /\ ran => Returned = NullRows
          /\ cx_calls = 1 => cx_call.query = query

C14_Witness ==
    /\ pc = "chunk"
    /\ query_adapter_callback = "only_nulls"
    /\ incremental.supplied
    /\ incremental.last_value_func = "max"
    /\ incremental.last_value = 1
    /\ adapter_arg.query.where = <<"ge", 1>>
    /\ Len(db.rows) = 3
    /\ Returned = {2}

\* C15: on the bulk-export path the loader opens no connection on the engine
\* and emits exactly one item per extraction, the whole result of the one
\* external read, whatever chunk_size and the number of rows are.
C15_BulkExportSingleItem ==
    backend = "connectorx" =>
        /\ conn_opened = 0
        /\ executed = 0
        /\ cx_calls <= 1
        /\ Cardinality(DataItems) <= 1
        /\ pc \notin {"connect", "partition", "chunk"}
        /\ (pc = "cx_item" \/ exit_by = "exhausted") =>
              /\ Cardinality(DataItems) = 1
              /\ cx_calls = 1
              /\ out[Len(out)] = Chunk("connectorx", result)

C15_Witness ==
    /\ Ended
    /\ exit_by = "exhausted"
    /\ backend = "connectorx"
    /\ chunk_size = 1
    /\ Len(result) = 3
    /\ Cardinality(DataItems) = 1

\* C16 as stated: between the start and the end of a table_rows run no field
\* of the caller's cursor state is changed.
C16_CursorStateImmutable == [][incremental' = incremental]_vars

\* C16 amended: no field of the cursor state other than primary_key is
\* changed during a table_rows run, and primary_key is changed only by the
\* deferred reflection of the first step, when it was None.
C16_OnlyPrimaryKeySet ==
    [][/\ incremental' = [incremental EXCEPT !.primary_key = incremental'.primary_key]
       /\ incremental'.primary_key # incremental.primary_key
            => (defer_table_reflect /\ pc = "created"
                  /\ incremental.primary_key = "None")]_vars

C16_Witness ==
    /\ Ended
    /\ exit_by = "exhausted"
    /\ incremental.supplied
    /\ incremental.primary_key = "id"
    /\ incremental.last_value = 1
    /\ incremental.last_value_func = "min"

\* C17: under deferred reflection a cursor state without explicit primary key
\* gets the reflected table's primary key, when the table declares one,
\* before the control record is emitted; an explicit primary key, a table
\* without one, or no deferred reflection leave it unchanged; the control
\* record carries the table's reflected primary key, not the cursor state's.
C17_PrimaryKeyAutoPopulated ==
    /\ [](\A i \in ControlItems : out[i].primary_key = db.primary_key)
    /\ []((ControlItems # {} /\ incremental.supplied /\ db.primary_key # "None")
            => incremental.primary_key # "None")
    /\ [][incremental'.primary_key # incremental.primary_key
            => /\ defer_table_reflect
               /\ incremental.supplied
               /\ incremental.primary_key = "None"
               /\ db.primary_key # "None"
               /\ incremental'.primary_key = db.primary_key
               /\ ControlItems = {}]_vars
    /\ [][(pc = "created" /\ pc' = "control" /\ incremental.supplied
             /\ incremental.primary_key = "None")
            => incremental'.primary_key = db.primary_key]_vars

C17_Witness ==
    /\ Ended
    /\ ControlItems = {1}
    /\ incremental.primary_key = "user_pk"
    /\ out[1].primary_key = "id"

\* C18: the options handed to the external reader are return_type = arrow2
\* and protocol = binary overridden key by key by the caller's options; the
\* connection string is the engine URL rendered with the backend name as
\* driver unless the caller supplies 'conn', which then replaces it; 'conn'
\* is never among the keyword options, and the caller's mapping is not
\* modified.
C18_BulkExportOptions ==
    /\ [](cx_calls >= 1 =>
            /\ DOMAIN cx_call.kwargs
                 = ({"return_type", "protocol"} \cup DOMAIN backend_kwargs) \ {"conn"}
            /\ \A k \in DOMAIN cx_call.kwargs :
                 cx_call.kwargs[k] =
                    IF k \in DOMAIN backend_kwargs THEN backend_kwargs[k]
                    ELSE IF k = "return_type" THEN <<"arrow2">> ELSE <<"binary">>
            /\ cx_call.conn =
                 IF "conn" \in DOMAIN backend_kwargs THEN backend_kwargs["conn"]
                 ELSE <<"postgresql", "None", "user:secret@host/db">>)
    /\ [][backend_kwargs' = backend_kwargs]_vars

C18_Witness ==
    /\ cx_calls = 1
    /\ pc = "cx_item"
    /\ DOMAIN backend_kwargs = {"protocol", "conn"}
    /\ cx_call.kwargs["protocol"] = <<"csv">>
    /\ cx_call.kwargs["return_type"] = <<"arrow2">>
    /\ cx_call.conn = <<"mssql", "None", "other/db">>

\* C19: the end bound is applied only together with a lower bound: with
\* aggregation max or min and last_value unset, the built query has no bound
\* predicate whatever end_value is - no WHERE at all, or only IS NOT NULL
\* under the exclude policy - so rows beyond end_value are returned, and the
\* include policy adds nothing.
C19_EndValueNeedsLastValue ==
    (pc \in {"q_built", "q_done"} /\ MaxOrMin /\ incremental.last_value = None) =>
        /\ query.where = IF incremental.on_cursor_value_missing = "exclude"
                         THEN <<"and", <<"true">>, <<"isnot_null">>>>
                         ELSE <<"none">>
        /\ pc = "q_done" =>
             Returned = IF incremental.on_cursor_value_missing = "exclude"
                        THEN Rows \ NullRows ELSE Rows

C19_Witness ==
    /\ pc = "q_done"
    /\ MaxOrMin
    /\ incremental.last_value_func = "max"
    /\ incremental.last_value = None
    /\ incremental.end_value = 1
    /\ incremental.on_cursor_value_missing = "include"
    /\ db.rows = <<2, None, 0>>
    /\ Returned = {1, 2, 3}

\* C20: in an in-process run over an owned engine the scoped connection is
\* released before engine.dispose() is called, on exhaustion, on an error in
\* the streamed read and on an early close; dispose is never called while
\* the loader's connection is open, and at most once per run.
C20_ReleaseBeforeDispose ==
    /\ engine.disposed <= 1
    /\ engine.disposed >= 1 => conn_released = conn_opened
    /\ pc = "finally" => (conn_released = conn_opened /\ engine.disposed = 0)
    /\ (Ended /\ InProcess /\ MayDispose(engine) /\ conn_opened = 1)
         => (conn_released = 1 /\ engine.disposed = 1)

C20_Witness ==
    /\ Ended
    /\ exit_by = "close"
    /\ backend = "pyarrow"
    /\ MayDispose(engine)
    /\ conn_opened = 1
    /\ conn_released = 1
    /\ engine.disposed = 1

====
